---- MODULE Spec2Model ----
(***************************************************************************)
(* Borrow/return consistency core of the library management service.       *)
(*                                                                         *)
(* The committed database holds one Book document per title (stock,        *)
(* borrowedBy, version key) and one User document per reader               *)
(* (borrowedBooks, version key).  Every HTTP request is a process that     *)
(* runs its controller one await at a time; each await is one atomic       *)
(* database round trip, and any other request may run between two awaits.  *)
(*                                                                         *)
(* Database behaviour assumed of MongoDB/mongoose:                         *)
(*  - a query without a session reads the committed state;                 *)
(*  - writes made with a session are buffered and become visible together  *)
(*    at commitTransaction, or never (abort, crash);                       *)
(*  - the snapshot of a transaction is taken at its first operation; a     *)
(*    write to a document that another open transaction has written, or    *)
(*    that was committed after the snapshot, fails (write conflict);       *)
(*  - a write outside a transaction waits for open transactions that       *)
(*    wrote the same document;                                             *)
(*  - save() sends the delta of the local document: $push for an array     *)
(*    push, $set for an assigned field; an assigned array is guarded by    *)
(*    the version key, and every array change increments the version key;  *)
(*  - save() on a document that no longer exists fails.                    *)
(***************************************************************************)
EXTENDS Integers, Sequences, FiniteSets, TLC

\* ------------------------------------------------------------------ bounds
MaxReqs == 2          \* number of requests issued in one behaviour
MaxStock == 2         \* largest stock value an owner sets

\* --------------------------------------------------------------- constants
BorrowLimit == 5

Readers == {"r1", "r2"}                \* the users that send requests
Roles == {"Reader", "Author"}
Books == {"b1", "b2"}                 \* titles the requests are about
\* titles reader r1 may already hold; no request is about them, so their
\* documents never change and are not carried in the state
Fillers == {"f1", "f2", "f3", "f4"}
Reqs == 1..MaxReqs

VARIABLES books, users, totalStock, req, init

vars == <<books, users, totalStock, req, init>>

\* ------------------------------------------------------------ pure helpers
RECURSIVE SeqFilter(_, _)
SeqFilter(s, x) ==
    IF s = <<>> THEN <<>>
    ELSE IF Head(s) = x THEN SeqFilter(Tail(s), x)
         ELSE <<Head(s)>> \o SeqFilter(Tail(s), x)

Range(s) == {s[i] : i \in 1..Len(s)}

Count(s, x) == Cardinality({i \in 1..Len(s) : s[i] = x})

NoBook == [exists |-> FALSE, stock |-> 0, borrowedBy |-> <<>>, v |-> 0]
NoUser == [exists |-> FALSE, role |-> "none", borrowedBooks |-> <<>>, v |-> 0]

UserDoc(r) == <<"user", r>>
BookDoc(b) == <<"book", b>>

\* populate('borrowedBooks'): the referenced books that still exist in bks
RECURSIVE PopulateIn(_, _)
PopulateIn(bks, s) ==
    IF s = <<>> THEN <<>>
    ELSE IF Head(s) \in Fillers \/ bks[Head(s)].exists
         THEN <<Head(s)>> \o PopulateIn(bks, Tail(s))
         ELSE PopulateIn(bks, Tail(s))

Populate(s) == PopulateIn(books, s)

\* User.borrowedBooks validator, on the local array that save() validates
borrowedBooksValidator(arr) == Len(arr) <= BorrowLimit

\* Book.borrowedBy validator: every borrower is an existing user with the
\* Reader role
borrowedByValidator(arr) ==
    \A u \in Range(arr) : users[u].exists /\ users[u].role = "Reader"

\* Book stock validator (min 0) and pre-save hook
bookPreSave(stock, arr) ==
    /\ stock >= 0
    /\ ~(Len(arr) > stock + Len(arr))

\* ------------------------------------------------------------ request slot
IdleReq ==
    [op |-> "none", r |-> "r1", b |-> "b1", n |-> 0, pc |-> "idle",
     luser |-> NoUser, lbook |-> NoBook,
     snap |-> FALSE, stale |-> {}, hasU |-> FALSE, hasB |-> FALSE,
     wUser |-> NoUser, wBook |-> NoBook,
     res |-> "none", ret |-> -1, fault |-> FALSE, afterSave |-> FALSE]

Issued == Cardinality({p \in Reqs : req[p].op # "none"})

\* the request answers: locals and transaction are dropped
Respond(rq, outcome, value) ==
    [rq EXCEPT !.pc = "done", !.res = outcome, !.ret = value,
                   !.luser = NoUser, !.lbook = NoBook,
                   !.snap = FALSE, !.stale = {}, !.hasU = FALSE, !.hasB = FALSE,
                   !.wUser = NoUser, !.wBook = NoBook]

\* documents p has written in its open transaction
Wrote(p) ==
    (IF req[p].hasU THEN {UserDoc(req[p].r)} ELSE {}) \cup
    (IF req[p].hasB THEN {BookDoc(req[p].b)} ELSE {})

\* a lock on the whole database: any open transaction blocks every document
LockedAny(d, p) == \E q \in Reqs \ {p} : Wrote(q) # {}

Locked(d, p) == \E q \in Reqs \ {p} : d \in Wrote(q)

\* a transactional write of p to document d is accepted
CanWrite(p, d) == ~Locked(d, p) /\ d \notin req[p].stale

\* every other open transaction learns that docs were committed after its snapshot
MarkStale(rq, p, docs) ==
    [q \in Reqs |->
        IF q # p /\ rq[q].snap THEN [rq[q] EXCEPT !.stale = @ \cup docs]
        ELSE rq[q]]

\* ----------------------------------------------------------------- initial
InitBook(s) == [exists |-> TRUE, stock |-> s, borrowedBy |-> <<>>, v |-> 0]

LentBook(s) == [exists |-> TRUE, stock |-> s - 1, borrowedBy |-> <<"r1">>, v |-> 1]

\* what reader r1 has already borrowed: nothing, the four filler titles, or
\* the fillers and title b1 (the borrow limit)
InitialLoans == {<<>>, <<"f1", "f2", "f3", "f4">>, <<"f1", "f2", "f3", "f4", "b1">>}

\* every title the requests are about was created with s copies: one, or as
\* many as an owner sets; user r1 signed up as a Reader, user r2 as a Reader
\* or as an Author
Init ==
    \E s \in {1, MaxStock}, held \in InitialLoans, role2 \in Roles :
        /\ role2 = "Author" => (s = 1 /\ held = <<>>)
        /\ books = [b \in Books |->
                      IF b \in Range(held) THEN LentBook(s) ELSE InitBook(s)]
        /\ users = [r \in Readers |->
                      IF r = "r1"
                      THEN [exists |-> TRUE, role |-> "Reader",
                            borrowedBooks |-> held, v |-> Len(held)]
                      ELSE [exists |-> TRUE, role |-> role2,
                            borrowedBooks |-> <<>>, v |-> 0]]
        /\ totalStock = [b \in Books |-> s]
        /\ req = [p \in Reqs |-> IdleReq]
        /\ init = [books |-> books, users |-> users]

\* ---------------------------------------------------------------- arrivals
\* slot p takes the next request; a request arrives with its first read
Arrives(p) == req[p].pc = "idle" /\ p = Issued + 1

NewReq(o, r, b, n) == [IdleReq EXCEPT !.op = o, !.r = r, !.b = b, !.n = n]

\* ------------------------------------------------------------- transaction
\* abortTransaction + the outer catch: nothing written becomes visible
Abort(p) == Respond(req[p], "InternalError", -1)

\* a commit that makes only the reader's document visible
CommitUserOnly(p) ==
    /\ users' = [users EXCEPT ![req[p].r] = req[p].wUser]
    /\ books' = books

\* commitTransaction: both buffered documents become visible in one step
CommitTxn(p) ==
    /\ users' = [users EXCEPT ![req[p].r] = req[p].wUser]
    /\ books' = [books EXCEPT ![req[p].b] = req[p].wBook]

\* ------------------------------------------------------------------ borrow
\* the first read of a Borrow without the "already borrowed" check
BorrowReadUserNoHeldCheck(p) ==
    /\ Arrives(p)
    /\ \E r \in Readers, b \in Books :
         LET rq == NewReq("borrow", r, b, 0)
             u == users[r]
             held == Populate(u.borrowedBooks)
         IN  req' = [req EXCEPT ![p] =
                IF ~u.exists THEN Respond(rq, "InternalError", -1)
                ELSE IF u.role # "Reader" THEN Respond(rq, "Forbidden", -1)
                ELSE IF Len(held) >= BorrowLimit THEN Respond(rq, "LimitReached", -1)
                ELSE [rq EXCEPT !.pc = "readBook",
                                    !.luser = [exists |-> TRUE, role |-> u.role,
                                               borrowedBooks |-> held,
                                               v |-> u.v]]]
    /\ UNCHANGED <<books, users, totalStock, init>>

\* the first read of a Borrow without the role check
BorrowReadUserAnyRole(p) ==
    /\ Arrives(p)
    /\ \E r \in Readers, b \in Books :
         LET rq == NewReq("borrow", r, b, 0)
             u == users[r]
             held == Populate(u.borrowedBooks)
         IN  req' = [req EXCEPT ![p] =
                IF ~u.exists THEN Respond(rq, "InternalError", -1)
                ELSE IF b \in Range(held) THEN Respond(rq, "AlreadyBorrowed", -1)
                ELSE IF Len(held) >= BorrowLimit THEN Respond(rq, "LimitReached", -1)
                ELSE [rq EXCEPT !.pc = "readBook",
                                    !.luser = [exists |-> TRUE, role |-> u.role,
                                               borrowedBooks |-> held,
                                               v |-> u.v]]]
    /\ UNCHANGED <<books, users, totalStock, init>>

BorrowReadUser(p) ==
    /\ Arrives(p)
    /\ \E r \in Readers, b \in Books :
         LET rq == NewReq("borrow", r, b, 0)
             u == users[r]
             held == Populate(u.borrowedBooks)
         IN  req' = [req EXCEPT ![p] =
                IF ~u.exists THEN Respond(rq, "InternalError", -1)
                ELSE IF u.role # "Reader" THEN Respond(rq, "Forbidden", -1)
                ELSE IF b \in Range(held) THEN Respond(rq, "AlreadyBorrowed", -1)
                ELSE IF Len(held) >= BorrowLimit THEN Respond(rq, "LimitReached", -1)
                ELSE [rq EXCEPT !.pc = "readBook",
                                    !.luser = [exists |-> TRUE, role |-> u.role,
                                               borrowedBooks |-> held,
                                               v |-> u.v]]]
    /\ UNCHANGED <<books, users, totalStock, init>>

BorrowReadBook(p) ==
    /\ req[p].op = "borrow" /\ req[p].pc = "readBook"
    /\ LET bk == books[req[p].b]
       IN  req' = [req EXCEPT ![p] =
                IF ~bk.exists THEN Respond(req[p], "NotFound", -1)
                ELSE IF bk.stock <= 0 THEN Respond(req[p], "OutOfStock", -1)
                ELSE [req[p] EXCEPT !.pc = "saveUser", !.lbook = bk]]
    /\ UNCHANGED <<books, users, totalStock, init>>

\* startTransaction; user.borrowedBooks.push(book._id); user.save({session})
BorrowSaveUser(p) ==
    /\ req[p].op = "borrow" /\ req[p].pc = "saveUser"
    /\ LET r == req[p].r
           local == Append(req[p].luser.borrowedBooks, req[p].b)
       IN  req' = [req EXCEPT ![p] =
                IF /\ borrowedBooksValidator(local)
                   /\ users[r].exists
                   /\ ~Locked(UserDoc(r), p)
                THEN [req[p] EXCEPT !.pc = "saveBook", !.snap = TRUE, !.hasU = TRUE,
                                    !.luser.borrowedBooks = local,
                                    !.wUser = [users[r] EXCEPT
                                                 !.borrowedBooks = Append(@, req[p].b),
                                                 !.v = @ + 1]]
                ELSE Abort(p)]
    /\ UNCHANGED <<books, users, totalStock, init>>

\* a book save that waits for the book's document instead of failing
BorrowSaveBookWaits(p) ==
    /\ req[p].op = "borrow" /\ req[p].pc = "saveBook"
    /\ CanWrite(p, BookDoc(req[p].b))
    /\ LET b == req[p].b
           stock == req[p].lbook.stock - 1
           by == Append(req[p].lbook.borrowedBy, req[p].r)
       IN  req' = [req EXCEPT ![p] =
                IF /\ bookPreSave(stock, by)
                   /\ borrowedByValidator(by)
                   /\ books[b].exists
                THEN [req[p] EXCEPT !.pc = "commit", !.hasB = TRUE,
                                    !.lbook.stock = stock, !.lbook.borrowedBy = by,
                                    !.wBook = [books[b] EXCEPT
                                                 !.stock = stock,
                                                 !.borrowedBy = Append(@, req[p].r),
                                                 !.v = @ + 1]]
                ELSE Abort(p)]
    /\ UNCHANGED <<books, users, totalStock, init>>

\* book.stock -= 1; book.borrowedBy.push(user._id); book.save({session})
BorrowSaveBook(p) ==
    /\ req[p].op = "borrow" /\ req[p].pc = "saveBook"
    /\ LET b == req[p].b
           stock == req[p].lbook.stock - 1
           by == Append(req[p].lbook.borrowedBy, req[p].r)
       IN  req' = [req EXCEPT ![p] =
                IF /\ bookPreSave(stock, by)
                   /\ borrowedByValidator(by)
                   /\ books[b].exists
                   /\ CanWrite(p, BookDoc(b))
                THEN [req[p] EXCEPT !.pc = "commit", !.hasB = TRUE,
                                    !.lbook.stock = stock, !.lbook.borrowedBy = by,
                                    !.wBook = [books[b] EXCEPT
                                                 !.stock = stock,
                                                 !.borrowedBy = Append(@, req[p].r),
                                                 !.v = @ + 1]]
                ELSE Abort(p)]
    /\ UNCHANGED <<books, users, totalStock, init>>

\* commitTransaction; respond 200 with remainingStock: book.stock
BorrowCommit(p) ==
    /\ req[p].op = "borrow" /\ req[p].pc = "commit"
    /\ CommitTxn(p)
    /\ req' = MarkStale([req EXCEPT ![p] = Respond(req[p], "OK", req[p].lbook.stock)],
                        p, Wrote(p))
    /\ UNCHANGED <<totalStock, init>>

\* ------------------------------------------------------------------ return
ReturnReadUser(p) ==
    /\ Arrives(p)
    /\ \E r \in Readers, b \in Books :
         LET rq == NewReq("return", r, b, 0)
             u == users[r]
         IN  req' = [req EXCEPT ![p] =
                IF ~u.exists THEN Respond(rq, "InternalError", -1)
                ELSE IF u.role # "Reader" THEN Respond(rq, "Forbidden", -1)
                ELSE [rq EXCEPT !.pc = "readBook",
                                    !.luser = [exists |-> TRUE, role |-> u.role,
                                               borrowedBooks |-> Populate(u.borrowedBooks),
                                               v |-> u.v]]]
    /\ UNCHANGED <<books, users, totalStock, init>>

\* the book read of a Return without the "not borrowed" check
ReturnReadBookNoCheck(p) ==
    /\ req[p].op = "return" /\ req[p].pc = "readBook"
    /\ LET bk == books[req[p].b]
       IN  req' = [req EXCEPT ![p] =
                IF ~bk.exists THEN Respond(req[p], "NotFound", -1)
                ELSE [req[p] EXCEPT !.pc = "saveUser", !.lbook = bk]]
    /\ UNCHANGED <<books, users, totalStock, init>>

ReturnReadBook(p) ==
    /\ req[p].op = "return" /\ req[p].pc = "readBook"
    /\ LET bk == books[req[p].b]
       IN  req' = [req EXCEPT ![p] =
                IF ~bk.exists THEN Respond(req[p], "NotFound", -1)
                ELSE IF req[p].b \notin Range(req[p].luser.borrowedBooks)
                     THEN Respond(req[p], "NotBorrowed", -1)
                ELSE [req[p] EXCEPT !.pc = "saveUser", !.lbook = bk]]
    /\ UNCHANGED <<books, users, totalStock, init>>

\* a Return that saves the book record first
ReturnSaveBookFirst(p) ==
    /\ req[p].op = "return" /\ req[p].pc = "saveUser"
    /\ LET b == req[p].b
           stock == req[p].lbook.stock + 1
           by == SeqFilter(req[p].lbook.borrowedBy, req[p].r)
       IN  req' = [req EXCEPT ![p] =
                IF /\ bookPreSave(stock, by)
                   /\ books[b].exists
                   /\ books[b].v = req[p].lbook.v
                   /\ ~Locked(BookDoc(b), p)
                THEN [req[p] EXCEPT !.pc = "saveBook", !.snap = TRUE, !.hasB = TRUE,
                                    !.wBook = [books[b] EXCEPT
                                                 !.stock = stock,
                                                 !.borrowedBy = by,
                                                 !.v = @ + 1]]
                ELSE Abort(p)]
    /\ UNCHANGED <<books, users, totalStock, init>>

\* startTransaction; user.borrowedBooks = filter(...); user.save({session})
ReturnSaveUser(p) ==
    /\ req[p].op = "return" /\ req[p].pc = "saveUser"
    /\ LET r == req[p].r
           local == SeqFilter(req[p].luser.borrowedBooks, req[p].b)
       IN  req' = [req EXCEPT ![p] =
                IF /\ borrowedBooksValidator(local)
                   /\ users[r].exists
                   /\ users[r].v = req[p].luser.v
                   /\ ~Locked(UserDoc(r), p)
                THEN [req[p] EXCEPT !.pc = "saveBook", !.snap = TRUE, !.hasU = TRUE,
                                    !.luser.borrowedBooks = local,
                                    !.wUser = [users[r] EXCEPT
                                                 !.borrowedBooks = local,
                                                 !.v = @ + 1]]
                ELSE Abort(p)]
    /\ UNCHANGED <<books, users, totalStock, init>>

\* book.stock += 1; book.borrowedBy = filter(...); book.save({session})
ReturnSaveBook(p) ==
    /\ req[p].op = "return" /\ req[p].pc = "saveBook"
    /\ LET b == req[p].b
           stock == req[p].lbook.stock + 1
           by == SeqFilter(req[p].lbook.borrowedBy, req[p].r)
       IN  req' = [req EXCEPT ![p] =
                IF /\ bookPreSave(stock, by)
                   /\ borrowedByValidator(by)
                   /\ books[b].exists
                   /\ books[b].v = req[p].lbook.v
                   /\ CanWrite(p, BookDoc(b))
                THEN [req[p] EXCEPT !.pc = "commit", !.hasB = TRUE,
                                    !.lbook.stock = stock, !.lbook.borrowedBy = by,
                                    !.wBook = [books[b] EXCEPT
                                                 !.stock = stock,
                                                 !.borrowedBy = by,
                                                 !.v = @ + 1]]
                ELSE Abort(p)]
    /\ UNCHANGED <<books, users, totalStock, init>>

\* commitTransaction; respond 200 with availableStock: book.stock
ReturnCommit(p) ==
    /\ req[p].op = "return" /\ req[p].pc = "commit"
    /\ CommitTxn(p)
    /\ req' = MarkStale([req EXCEPT ![p] = Respond(req[p], "OK", req[p].lbook.stock)],
                        p, Wrote(p))
    /\ UNCHANGED <<totalStock, init>>

\* a failure that leaves the reader's buffered document behind, committed
StorageFailureKeepsUser(p) ==
    /\ req[p].op \in {"borrow", "return"}
    /\ req[p].pc \in {"saveUser", "saveBook", "commit"}
    /\ req' = [req EXCEPT ![p] = [Abort(p) EXCEPT !.fault = TRUE, !.afterSave = req[p].hasU]]
    /\ users' = IF req[p].hasU THEN [users EXCEPT ![req[p].r] = req[p].wUser] ELSE users
    /\ UNCHANGED <<books, totalStock, init>>

\* a save or the commit fails in the storage layer, or the process stops:
\* the transaction never commits
StorageFailure(p) ==
    /\ req[p].op \in {"borrow", "return"}
    /\ req[p].pc \in {"saveUser", "saveBook", "commit"}
    /\ req' = [req EXCEPT ![p] = [Abort(p) EXCEPT !.fault = TRUE, !.afterSave = req[p].hasU]]
    /\ UNCHANGED <<books, users, totalStock, init>>

\* ------------------------------------------------------------- stock edit
\* the read of a stock edit without the check against the holders
UpdateReadBookNoCheck(p) ==
    /\ Arrives(p)
    /\ \E b \in Books, n \in 0..MaxStock :
         LET rq == NewReq("update", "r1", b, n)
             bk == books[b]
         IN  req' = [req EXCEPT ![p] =
                IF ~bk.exists THEN Respond(rq, "NotFound", -1)
                ELSE [rq EXCEPT !.pc = "write"]]
    /\ UNCHANGED <<books, users, totalStock, init>>

UpdateReadBook(p) ==
    /\ Arrives(p)
    /\ \E b \in Books, n \in 0..MaxStock :
         LET rq == NewReq("update", "r1", b, n)
             bk == books[b]
             currentBorrowers == Len(bk.borrowedBy)
         IN  req' = [req EXCEPT ![p] =
                IF ~bk.exists THEN Respond(rq, "NotFound", -1)
                ELSE IF n < currentBorrowers
                     THEN Respond(rq, "StockBelowHeldCount", -1)
                ELSE [rq EXCEPT !.pc = "write"]]
    /\ UNCHANGED <<books, users, totalStock, init>>

\* Book.findByIdAndUpdate(id, {stock}): outside any transaction
UpdateWrite(p) ==
    /\ req[p].op = "update" /\ req[p].pc = "write"
    /\ ~Locked(BookDoc(req[p].b), p)
    /\ LET b == req[p].b
       IN  IF books[b].exists
           THEN /\ books' = [books EXCEPT ![b].stock = req[p].n]
                /\ totalStock' = [totalStock EXCEPT ![b] = req[p].n]
                /\ req' = MarkStale([req EXCEPT ![p] = Respond(req[p], "OK", req[p].n)],
                                    p, {BookDoc(b)})
           ELSE /\ req' = [req EXCEPT ![p] = Respond(req[p], "OK", -1)]
                /\ UNCHANGED <<books, totalStock>>
    /\ UNCHANGED <<users, init>>

\* ----------------------------------------------------------------- deletes
DeleteBookRead(p) ==
    /\ Arrives(p)
    /\ \E b \in Books :
         LET rq == NewReq("deleteBook", "r1", b, 0)
             bk == books[b]
         IN  req' = [req EXCEPT ![p] =
                IF ~bk.exists THEN Respond(rq, "NotFound", -1)
                ELSE IF Len(bk.borrowedBy) > 0 THEN Respond(rq, "StillBorrowed", -1)
                ELSE [rq EXCEPT !.pc = "write"]]
    /\ UNCHANGED <<books, users, totalStock, init>>

\* Book.findByIdAndDelete(id)
DeleteBookWrite(p) ==
    /\ req[p].op = "deleteBook" /\ req[p].pc = "write"
    /\ ~Locked(BookDoc(req[p].b), p)
    /\ books' = [books EXCEPT ![req[p].b] = NoBook]
    /\ req' = MarkStale([req EXCEPT ![p] = Respond(req[p], "OK", -1)],
                        p, {BookDoc(req[p].b)})
    /\ UNCHANGED <<users, totalStock, init>>

DeleteUserRead(p) ==
    /\ Arrives(p)
    /\ \E r \in Readers :
         LET rq == NewReq("deleteUser", r, "b1", 0)
             u == users[r]
         IN  req' = [req EXCEPT ![p] =
                IF ~u.exists THEN Respond(rq, "NotFound", -1)
                ELSE IF Len(u.borrowedBooks) > 0 THEN Respond(rq, "StillBorrowed", -1)
                ELSE [rq EXCEPT !.pc = "write"]]
    /\ UNCHANGED <<books, users, totalStock, init>>

\* User.findByIdAndDelete(id)
DeleteUserWrite(p) ==
    /\ req[p].op = "deleteUser" /\ req[p].pc = "write"
    /\ ~Locked(UserDoc(req[p].r), p)
    /\ users' = [users EXCEPT ![req[p].r] = NoUser]
    /\ req' = MarkStale([req EXCEPT ![p] = Respond(req[p], "OK", -1)],
                        p, {UserDoc(req[p].r)})
    /\ UNCHANGED <<books, totalStock, init>>

\* ------------------------------------------------------------------- steps
BorrowStep(p) ==
    \/ BorrowReadUser(p) \/ BorrowReadBook(p) \/ BorrowSaveUser(p)
    \/ BorrowSaveBook(p) \/ BorrowCommit(p)

ReturnStep(p) ==
    \/ ReturnReadUser(p) \/ ReturnReadBook(p) \/ ReturnSaveUser(p)
    \/ ReturnSaveBook(p) \/ ReturnCommit(p)

Next ==
    \E p \in Reqs :
        \/ BorrowStep(p)
        \/ ReturnStep(p)
        \/ StorageFailure(p)
        \/ UpdateReadBook(p) \/ UpdateWrite(p)
        \/ DeleteBookRead(p) \/ DeleteBookWrite(p)
        \/ DeleteUserRead(p) \/ DeleteUserWrite(p)

Spec == Init /\ [][Next]_vars

TypeOK ==
    /\ \A b \in Books : books[b].stock \in Int
    /\ \A p \in Reqs : req[p].pc \in {"idle", "readBook", "saveUser",
                                      "saveBook", "commit", "write", "done"}

\* ---------------------------------------------------------- claim helpers
Holds(r, b) == users[r].exists /\ b \in Range(users[r].borrowedBooks)
HeldBy(b, r) == books[b].exists /\ r \in Range(books[b].borrowedBy)

AllDone == \A p \in Reqs : req[p].op # "none" => req[p].pc = "done"
NoFault == \A p \in Reqs : ~req[p].fault
\* no request was answered 500 (storage failure, write conflict, version error)
NoInternalError == \A p \in Reqs : req[p].res # "InternalError"

\* every request of the run has been issued and has answered
Finished == Issued = MaxReqs /\ AllDone

\* r could borrow b in the initial state
CouldBorrow(r, b) ==
    /\ init.users[r].role = "Reader"
    /\ b \notin Range(init.users[r].borrowedBooks)
    /\ Len(init.users[r].borrowedBooks) < BorrowLimit

Outcome(db, res, ret) == [db |-> db, res |-> res, ret |-> ret]

SerialBorrow(db, r, b) ==
    LET u == db.users[r]
        held == PopulateIn(db.books, u.borrowedBooks)
        bk == db.books[b]
    IN  IF ~u.exists THEN Outcome(db, "InternalError", -1)
        ELSE IF u.role # "Reader" THEN Outcome(db, "Forbidden", -1)
        ELSE IF b \in Range(held) THEN Outcome(db, "AlreadyBorrowed", -1)
        ELSE IF Len(held) >= BorrowLimit THEN Outcome(db, "LimitReached", -1)
        ELSE IF ~bk.exists THEN Outcome(db, "NotFound", -1)
        ELSE IF bk.stock <= 0 THEN Outcome(db, "OutOfStock", -1)
        ELSE Outcome([books |-> [db.books EXCEPT ![b].stock = @ - 1,
                                                 ![b].borrowedBy = Append(@, r),
                                                 ![b].v = @ + 1],
                      users |-> [db.users EXCEPT ![r].borrowedBooks = Append(@, b),
                                                 ![r].v = @ + 1]],
                     "OK", bk.stock - 1)

SerialReturn(db, r, b) ==
    LET u == db.users[r]
        held == PopulateIn(db.books, u.borrowedBooks)
        bk == db.books[b]
    IN  IF ~u.exists THEN Outcome(db, "InternalError", -1)
        ELSE IF u.role # "Reader" THEN Outcome(db, "Forbidden", -1)
        ELSE IF ~bk.exists THEN Outcome(db, "NotFound", -1)
        ELSE IF b \notin Range(held) THEN Outcome(db, "NotBorrowed", -1)
        ELSE Outcome([books |-> [db.books EXCEPT ![b].stock = @ + 1,
                                                 ![b].borrowedBy = SeqFilter(@, r),
                                                 ![b].v = @ + 1],
                      users |-> [db.users EXCEPT ![r].borrowedBooks = SeqFilter(held, b),
                                                 ![r].v = @ + 1]],
                     "OK", bk.stock + 1)

SerialUpdate(db, b, n) ==
    LET bk == db.books[b]
    IN  IF ~bk.exists THEN Outcome(db, "NotFound", -1)
        ELSE IF n < Len(bk.borrowedBy) THEN Outcome(db, "StockBelowHeldCount", -1)
        ELSE Outcome([db EXCEPT !.books[b].stock = n], "OK", n)

SerialRequest(db, rq) ==
    IF rq.op = "borrow" THEN SerialBorrow(db, rq.r, rq.b)
    ELSE IF rq.op = "return" THEN SerialReturn(db, rq.r, rq.b)
    ELSE SerialUpdate(db, rq.b, rq.n)

\* the requests of ord, one after the other, from db; out[i] is the response
\* of the i-th request
RECURSIVE SerialRun(_, _)
SerialRun(db, ord) ==
    IF ord = <<>> THEN [db |-> db, out |-> <<>>]
    ELSE LET first == SerialRequest(db, req[Head(ord)])
             rest == SerialRun(first.db, Tail(ord))
         IN  [db |-> rest.db, out |-> <<<<first.res, first.ret>>>> \o rest.out]

Orders(S) ==
    {f \in [1..Cardinality(S) -> S] : \A i, j \in 1..Cardinality(S) : f[i] = f[j] => i = j}

\* the committed documents without their version keys
View(db) ==
    [books |-> [b \in Books |->
                  <<db.books[b].exists, db.books[b].stock, db.books[b].borrowedBy>>],
     users |-> [r \in Readers |->
                  <<db.users[r].exists, db.users[r].borrowedBooks>>]]

Current == [books |-> books, users |-> users]

\* the issued requests ended as if run one at a time in the order ord
SameAsSerial(ord) ==
    LET run == SerialRun(init, ord)
    IN  /\ View(run.db) = View(Current)
        /\ \A i \in 1..Len(ord) :
              run.out[i] = <<req[ord[i]].res, req[ord[i]].ret>>

IssuedReqs == {p \in Reqs : req[p].op # "none"}

HeldChanged(r) == users'[r].borrowedBooks # users[r].borrowedBooks
LedgerChanged(b) ==
    \/ books'[b].stock # books[b].stock
    \/ books'[b].borrowedBy # books[b].borrowedBy

\* request p, a Borrow or a Return, takes a step (its position changes)
BorrowOrReturnMoves(p) ==
    /\ req'[p].op \in {"borrow", "return"}
    /\ req'[p].pc # req[p].pc

C6_AllOrNothing ==
    [][\A p \in Reqs :
          BorrowOrReturnMoves(p)
          => (HeldChanged(req'[p].r) <=> LedgerChanged(req'[p].b))]_vars

\* a request failed after its first save had been accepted
C6_Witness ==
    \E p \in Reqs : req[p].fault /\ req[p].afterSave

ReturnNotHeldAlone ==
    \A r \in Readers, b \in Books :
        ( /\ users[r].exists /\ users[r].role = "Reader"
          /\ books[b].exists /\ ~Holds(r, b) )
        => SerialReturn(Current, r, b) = Outcome(Current, "NotBorrowed", -1)

\* request p, a Return, is about to look at a book its reader does not hold
ReturnOfNotHeld(p) ==
    /\ req[p].op = "return" /\ req[p].pc = "readBook"
    /\ req[p].b \notin Range(req[p].luser.borrowedBooks)
    /\ books[req[p].b].exists

C12_ReturnNotHeld ==
    [][/\ Finished' => ReturnNotHeldAlone'
       /\ \A p \in Reqs :
            (ReturnOfNotHeld(p) /\ req'[p] # req[p])
            => /\ req'[p].pc = "done" /\ req'[p].res = "NotBorrowed"
               /\ books' = books /\ users' = users]_vars

\* the same Return of a book not held was made twice and rejected twice
C12_Witness ==
    \E p, q \in Reqs :
        /\ p # q /\ req[p].op = "return" /\ req[q].op = "return"
        /\ req[p].r = req[q].r /\ req[p].b = req[q].b
        /\ req[p].res = "NotBorrowed" /\ req[q].res = "NotBorrowed"

\* -------------------------------------------------------------------- C13
\* C13: a Borrow(R,B) request that arrives while R's committed list holds the
\* existing book B answers AlreadyBorrowed and changes no book and no reader
\* (B's stock and holders and R's held list stay as they were); the same
\* holds for the request run alone from the committed state the run ends in.
BorrowOfHeldAlone ==
    \A r \in Readers, b \in Books :
        (Holds(r, b) /\ books[b].exists)
        => SerialBorrow(Current, r, b) = Outcome(Current, "AlreadyBorrowed", -1)

\* slot p takes a request of kind o in this step
ArrivesAs(p, o) == req[p].pc = "idle" /\ req'[p].op = o

C13_AlreadyBorrowed ==
    [][/\ Finished' => BorrowOfHeldAlone'
       /\ \A p \in Reqs :
            ( /\ ArrivesAs(p, "borrow")
              /\ Holds(req'[p].r, req'[p].b) /\ books[req'[p].b].exists )
            => /\ req'[p].pc = "done" /\ req'[p].res = "AlreadyBorrowed"
               /\ books' = books /\ users' = users]_vars

\* a Borrow succeeded and the same Borrow, made again, was rejected
C13_Witness ==
    \E p, q \in Reqs :
        /\ p # q /\ req[p].op = "borrow" /\ req[q].op = "borrow"
        /\ req[p].r = req[q].r /\ req[p].b = req[q].b
        /\ req[p].res = "OK" /\ req[q].res = "AlreadyBorrowed"
        /\ Count(users[req[p].r].borrowedBooks, req[p].b) = 1

\* -------------------------------------------------------------------- C14
\* C14: a Borrow(R,B) request that arrives while R's committed list holds 5
\* books, B not among them, answers LimitReached and changes no book and no
\* reader; the same holds for the request run alone from the committed
\* state the run ends in.
AtLimit(r, b) ==
    /\ users[r].exists
    /\ Len(users[r].borrowedBooks) >= BorrowLimit
    /\ ~Holds(r, b)

BorrowAtLimitAlone ==
    \A r \in Readers, b \in Books :
        AtLimit(r, b)
        => SerialBorrow(Current, r, b) = Outcome(Current, "LimitReached", -1)

BelowHeldCount(b, n) == books[b].exists /\ n < Len(books[b].borrowedBy)

UpdateBelowHeldAlone ==
    \A b \in Books, n \in 0..MaxStock :
        BelowHeldCount(b, n)
        => SerialUpdate(Current, b, n) = Outcome(Current, "StockBelowHeldCount", -1)

C15_StockBelowHeldCount ==
    [][/\ Finished' => UpdateBelowHeldAlone'
       /\ \A p \in Reqs :
            (ArrivesAs(p, "update") /\ BelowHeldCount(req'[p].b, req'[p].n))
            => /\ req'[p].pc = "done" /\ req'[p].res = "StockBelowHeldCount"
               /\ books' = books /\ users' = users /\ totalStock' = totalStock]_vars

\* a book with one copy, lent to r1: the edit to 0 copies was rejected
C15_Witness ==
    \E p \in Reqs :
        /\ req[p].op = "update" /\ req[p].n = 0
        /\ req[p].res = "StockBelowHeldCount"
        /\ init.books[req[p].b].borrowedBy = <<"r1">>
        /\ books[req[p].b] = init.books[req[p].b]
        /\ totalStock[req[p].b] = 1

\* -------------------------------------------------------------------- C16
\* C16: a Borrow(R,B) request of an existing reader R that answers from one
\* of its two reads while book B does not exist answers NotFound, whatever R
\* holds (also 5 books), and changes no book and no reader; the same holds
\* for the request run alone from the committed state the run ends in.
BorrowMissingAlone ==
    \A r \in Readers, b \in Books :
        (users[r].exists /\ users[r].role = "Reader" /\ ~books[b].exists)
        => SerialBorrow(Current, r, b) = Outcome(Current, "NotFound", -1)

\* request p, a Borrow, answers in this step from its read of the reader or
\* of the book
BorrowAnswersFromRead(p) ==
    /\ req'[p].op = "borrow" /\ req'[p].pc = "done"
    /\ \/ /\ req[p].pc = "idle"
          /\ users[req'[p].r].exists /\ users[req'[p].r].role = "Reader"
       \/ req[p].pc = "readBook"

UpdateSucceeds(p) ==
    /\ req[p].op = "update" /\ req[p].pc = "write"
    /\ req'[p].pc = "done" /\ req'[p].res = "OK"
    /\ books[req[p].b].exists
    /\ req[p].n >= Len(books[req[p].b].borrowedBy)

NoStockEdit == \A p \in Reqs : req[p].op # "update"

DeleteOfHeldRejected ==
    \A p \in Reqs :
        ( /\ ArrivesAs(p, "deleteBook")
          /\ books[req'[p].b].exists /\ Len(books[req'[p].b].borrowedBy) > 0 )
        => /\ req'[p].pc = "done" /\ req'[p].res = "StillBorrowed"
           /\ books' = books /\ users' = users

RemovedOnlyUnheld ==
    \A b \in Books :
        (books[b].exists /\ ~books'[b].exists) => books[b].borrowedBy = <<>>

DeleteUserAnswers(p) ==
    /\ req'[p].op = "deleteUser"
    /\ req[p].pc # "done" /\ req'[p].pc = "done"

WriteConflict(p) ==
    /\ req[p].op \in {"borrow", "return"}
    /\ \/ /\ req[p].pc = "saveUser"
          /\ users[req[p].r].exists /\ Locked(UserDoc(req[p].r), p)
       \/ /\ req[p].pc = "saveBook"
          /\ books[req[p].b].exists /\ ~CanWrite(p, BookDoc(req[p].b))

Continues(p) ==
    \/ BorrowReadBook(p) \/ BorrowSaveUser(p) \/ BorrowSaveBook(p) \/ BorrowCommit(p)
    \/ ReturnReadBook(p) \/ ReturnSaveUser(p) \/ ReturnSaveBook(p) \/ ReturnCommit(p)

\* the Borrow and Return requests among themselves, with storage failures
LiveNext == \E p \in Reqs : BorrowStep(p) \/ ReturnStep(p) \/ StorageFailure(p)

LiveSpec == Init /\ [][LiveNext]_vars /\ \A p \in Reqs : WF_vars(Continues(p))

InFlight(p) == req[p].op \in {"borrow", "return"} /\ req[p].pc # "done"

\* the session of an answered request is ended: no snapshot, nothing held
SessionEnded(p) == ~req[p].snap /\ Wrote(p) = {} /\ req[p].stale = {}

\* C22: whenever Borrow or Return requests are in flight, a state follows in
\* which all of them have answered (whatever the other requests do, none
\* waits for another), an answered request has ended its session, and it
\* answers once: its response never changes.
C22_Terminates ==
    /\ (\E p \in Reqs : InFlight(p)) ~> (\A p \in Reqs : ~InFlight(p))
    /\ [](\A p \in Reqs : req[p].pc = "done" => SessionEnded(p))
    /\ [][\A p \in Reqs : req[p].pc = "done" => req'[p] = req[p]]_vars

\* two requests on the same reader and book were in flight together and both
\* have answered
C22_Witness ==
    \E p, q \in Reqs :
        /\ p # q /\ req[p].pc = "done" /\ req[q].pc = "done"
        /\ req[p].op \in {"borrow", "return"} /\ req[q].op \in {"borrow", "return"}
        /\ req[p].r = req[q].r /\ req[p].b = req[q].b
        /\ req[q].res = "InternalError" /\ ~req[q].fault

\* -------------------------------------------------------------------- C23
\* C23: every step of a Borrow(R,B) or Return(R,B) request leaves every book
\* other than B and every reader other than R unchanged; and two Borrow or
\* Return requests on different readers and different books, the only
\* requests of the run and not hit by a storage failure, each answer as when
\* run alone and leave their reader and book as when run alone.
OthersUnchanged(p) ==
    /\ \A b \in Books \ {req'[p].b} : books'[b] = books[b]
    /\ \A r \in Readers \ {req'[p].r} : users'[r] = users[r]

Disjoint(p, q) ==
    /\ p # q /\ Issued = 2
    /\ req[p].op \in {"borrow", "return"} /\ req[q].op \in {"borrow", "return"}
    /\ req[p].pc = "done" /\ req[q].pc = "done"
    /\ req[p].r # req[q].r /\ req[p].b # req[q].b
    /\ ~req[p].fault /\ ~req[q].fault

AsAlone(p) ==
    LET alone == SerialRequest(init, req[p])
    IN  /\ req[p].res = alone.res /\ req[p].ret = alone.ret
        /\ View(alone.db).books[req[p].b] = View(Current).books[req[p].b]
        /\ View(alone.db).users[req[p].r] = View(Current).users[req[p].r]

C23_Frame ==
    [][/\ \A p \in Reqs : BorrowOrReturnMoves(p) => OthersUnchanged(p)
       /\ \A p, q \in Reqs : Disjoint(p, q)' => AsAlone(p)']_vars

\* two borrows on different readers and books ran together and both succeeded
C23_Witness ==
    \E p, q \in Reqs :
        /\ Disjoint(p, q)
        /\ req[p].op = "borrow" /\ req[q].op = "borrow"
        /\ req[p].res = "OK" /\ req[q].res = "OK"
        /\ books[req[p].b].borrowedBy = <<req[p].r>>
        /\ books[req[q].b].borrowedBy = <<req[q].r>>

\* -------------------------------------------------------------------- C24
\* C24: when a save or the commit of a Borrow or Return fails, or a save is
\* refused (validation, conflict, missing document), nothing the request
\* wrote becomes visible: books and readers are unchanged by the step, the
\* transaction is gone, and the caller gets InternalError with no value.
StorageStepFails(p) ==
    /\ req[p].op \in {"borrow", "return"}
    /\ req[p].pc \in {"saveUser", "saveBook", "commit"}
    /\ req'[p].pc = "done" /\ req'[p].res # "OK"

C24_FailureOpaque ==
    [][\A p \in Reqs :
          StorageStepFails(p)
          => /\ books' = books /\ users' = users
             /\ req'[p].res = "InternalError" /\ req'[p].ret = -1
             /\ SessionEnded(p)']_vars

\* a commit failed after both saves had been accepted, and nothing changed
C24_Witness ==
    \E p \in Reqs :
        /\ req[p].fault /\ req[p].afterSave /\ req[p].res = "InternalError"
        /\ Issued = 1
        /\ books = init.books /\ users = init.users

\* -------------------------------------------------------------------- C25
\* C25: a Borrow(R,B) of an existing book B that violates several of the
\* preconditions "R does not hold B", "R holds fewer than 5 books", "B has a
\* copy in stock" answers with the first violated one in that order, and
\* changes no book and no reader.  Stated for the request run alone from
\* every committed state, and from that state after one more Borrow run
\* alone, in which at least two are violated.
HoldsIn(db, r, b) == b \in Range(db.users[r].borrowedBooks)
AtLimitIn(db, r) == Len(db.users[r].borrowedBooks) >= BorrowLimit
OutOfStockIn(db, b) == db.books[b].stock <= 0

FirstViolated(db, r, b) ==
    IF HoldsIn(db, r, b) THEN "AlreadyBorrowed"
    ELSE IF AtLimitIn(db, r) THEN "LimitReached"
    ELSE IF OutOfStockIn(db, b) THEN "OutOfStock"
    ELSE "OK"

SeveralViolated(db, r, b) ==
    \/ HoldsIn(db, r, b) /\ AtLimitIn(db, r)
    \/ HoldsIn(db, r, b) /\ OutOfStockIn(db, b)
    \/ AtLimitIn(db, r) /\ OutOfStockIn(db, b)

\* the committed state, and the states one Borrow run alone leads to
AfterOneBorrow ==
    {Current} \cup {SerialBorrow(Current, r, b).db : r \in Readers, b \in Books}

StillToWrite(p) ==
    IF req[p].op \in {"borrow", "return"} /\ req[p].pc \in {"saveUser", "saveBook"}
    THEN {UserDoc(req[p].r), BookDoc(req[p].b)} \ Wrote(p)
    ELSE {}

WaitsFor(p, q) == StillToWrite(p) \cap Wrote(q) # {}

\* every transaction of S waits for another transaction of S
Deadlocked(S) == \A p \in S : \E q \in S \ {p} : WaitsFor(p, q)

C26_NoDeadlock ==
    /\ \A S \in SUBSET Reqs : S # {} => ~Deadlocked(S)
    /\ \A p \in Reqs : req[p].hasB => req[p].hasU

\* a transaction that holds its reader and its book while another, holding
\* another reader, still has to write the same book
C26_Witness ==
    \E p, q \in Reqs :
        /\ p # q /\ req[p].hasU /\ req[p].hasB
        /\ req[q].hasU /\ ~req[q].hasB
        /\ WaitsFor(q, p) /\ ~WaitsFor(p, q)

\* -------------------------------------------------------------------- C27
\* p arrives as a Borrow or a Return of a user whose role is not Reader
NonReaderAsks(p) ==
    /\ req[p].pc = "idle"
    /\ req'[p].op \in {"borrow", "return"}
    /\ users[req'[p].r].exists
    /\ users[req'[p].r].role # "Reader"

\* C27: a Borrow or a Return of a user whose role is not Reader is answered
\* with the rejection at once and changes no book and no user; and every
\* user in a book's holder list has the Reader role.
C27_ReadersOnly ==
    /\ [][\A p \in Reqs :
             NonReaderAsks(p)
             => /\ req'[p].pc = "done" /\ req'[p].res = "Forbidden"
                /\ books' = books /\ users' = users]_vars
    /\ [](\A b \in Books : \A u \in Range(books[b].borrowedBy) :
             users[u].exists => users[u].role = "Reader")

\* a user with the Author role asked to borrow and was turned away, while
\* a Reader holds a book
C27_Witness ==
    /\ \E p \in Reqs :
          /\ req[p].op = "borrow" /\ req[p].res = "Forbidden"
          /\ users[req[p].r].role = "Author"
    /\ \E b \in Books, u \in Readers : HeldBy(b, u) /\ users[u].role = "Reader"

\* -------------------------------------------------------------------- C28
\* the stored available count of b plus the number of its holders
Copies(b) == books[b].stock + Len(books[b].borrowedBy)

\* p's Borrow or Return commits in this step
Commits(p) ==
    /\ req[p].op \in {"borrow", "return"}
    /\ req[p].pc = "commit"
    /\ req'[p].res = "OK"

\* the requests issued so far are Borrows and Returns only
OnlyLoans == \A q \in Reqs : req[q].op \in {"none", "borrow", "return"}

TwoReturnsOf(r, b) ==
    /\ Cardinality(IssuedReqs) = 2 /\ AllDone /\ NoFault
    /\ \A p \in IssuedReqs : req[p].op = "return" /\ req[p].r = r /\ req[p].b = b
    /\ Count(init.users[r].borrowedBooks, b) = 1
    /\ Count(init.books[b].borrowedBy, r) = 1

============================================================================
